---- MODULE Spec2Model ----
(***************************************************************************)
(* A model of the country-leaders scraper:                                 *)
(*   src/scraper.py          WikipediaScraper and its cookie-retry wrapper  *)
(*   src/main.py             the script that runs it and exports            *)
(*   src/leaders_scraper.py  the older, function-based version              *)
(*                                                                         *)
(* Text is a sequence of one-character strings.  A Python value that may   *)
(* be a string, None or a raised exception is a record [kind, val].        *)
(***************************************************************************)
EXTENDS Integers, Sequences, FiniteSets, TLC

(***************************************************************************)
(* Bounds of the model.                                                    *)
(***************************************************************************)
\* longest text handed to the cleaner in SpecClean
MaxLen == 5
\* longest page, in markers, handed to the extractors in SpecExtract
MaxTokens == 5
\* most countries in the body of /countries, most leaders in a body of /leaders
MaxCountries == 2
MaxLeaders == 2

(***************************************************************************)
(* Characters.  Icon stands for U+24D8, the circled "i" that Wikipedia     *)
(* prints after a pronunciation; it is not a word character for \w.  NL is *)
(* the newline, which "." does not match and strip() removes.              *)
(***************************************************************************)
Icon == "i"
NL == "\n"
WordChars == {"a"}
Whitespace == {" ", NL}
Sigma == {"/", Icon, ";", " ", "(", ")", "[", "]", "a", NL}

RECURSIVE StringsUpTo(_, _)
StringsUpTo(S, n) ==
    IF n = 0 THEN {<< >>}
    ELSE LET shorter == StringsUpTo(S, n - 1)
         IN  shorter \cup {Append(s, c) : s \in shorter, c \in S}

Min(S) == CHOOSE x \in S : \A y \in S : x <= y

(***************************************************************************)
(* str.rstrip() and str.strip()                                            *)
(***************************************************************************)
RECURSIVE rstrip(_)
rstrip(s) ==
    IF s = << >> THEN << >>
    ELSE IF s[Len(s)] \in Whitespace THEN rstrip(SubSeq(s, 1, Len(s) - 1))
    ELSE s

RECURSIVE lstrip(_)
lstrip(s) ==
    IF s = << >> THEN << >>
    ELSE IF s[1] \in Whitespace THEN lstrip(Tail(s))
    ELSE s

strip(s) == lstrip(rstrip(s))

(***************************************************************************)
(* Regular expressions, as re.sub applies them.  Every pattern of the two  *)
(* cleaners is an alternation whose alternatives have one of two shapes:   *)
(*   "lazy":  pre .*? suf opt?   a literal, a lazy run of non-newline       *)
(*            characters, a literal, and an optional (greedy) literal;     *)
(*   "ref":   \[\w\]                                                        *)
(* A match end is the index after the match; 0 means no match.             *)
(***************************************************************************)
Lazy(pre, suf, opt) == [kind |-> "lazy", pre |-> pre, suf |-> suf, opt |-> opt]
Ref == [kind |-> "ref", pre |-> << >>, suf |-> << >>, opt |-> << >>]

HasAt(s, i, lit) ==
    /\ i + Len(lit) - 1 <= Len(s)
    /\ \A k \in 1..Len(lit) : s[i + k - 1] = lit[k]

\* pre.*?suf at i: the lazy run stops at the first place suf matches, and
\* nothing follows suf that could make the matcher back up.
LazyEnd(s, i, alt) ==
    IF ~HasAt(s, i, alt.pre) THEN 0
    ELSE LET from == i + Len(alt.pre)
             J == {j \in from..(Len(s) + 1) :
                      /\ HasAt(s, j, alt.suf)
                      /\ \A k \in from..(j - 1) : s[k] # NL}
         IN  IF J = {} THEN 0
             ELSE LET e == Min(J) + Len(alt.suf)
                  IN  IF alt.opt # << >> /\ HasAt(s, e, alt.opt)
                      THEN e + Len(alt.opt) ELSE e

RefEnd(s, i) ==
    IF /\ i + 2 <= Len(s)
       /\ s[i] = "["
       /\ s[i + 1] \in WordChars
       /\ s[i + 2] = "]"
    THEN i + 3 ELSE 0

AltEnd(s, i, alt) == IF alt.kind = "ref" THEN RefEnd(s, i) ELSE LazyEnd(s, i, alt)

\* an alternation takes its first alternative that matches at i
RECURSIVE MatchEnd(_, _, _)
MatchEnd(s, i, alts) ==
    IF alts = << >> THEN 0
    ELSE LET e == AltEnd(s, i, Head(alts))
         IN  IF e # 0 THEN e ELSE MatchEnd(s, i, Tail(alts))

\* re.sub from index i on: leftmost matches, not overlapping (no pattern
\* here matches the empty string)
RECURSIVE SubFrom(_, _, _)
SubFrom(pr, s, i) ==
    IF i > Len(s) THEN << >>
    ELSE LET e == MatchEnd(s, i, pr.pattern)
         IN  IF e = 0 THEN << s[i] >> \o SubFrom(pr, s, i + 1)
             ELSE pr.replacement \o SubFrom(pr, s, e)

re_sub(pr, s) == SubFrom(pr, s, 1)

RECURSIVE SubAll(_, _)
SubAll(prs, s) ==
    IF prs = << >> THEN s ELSE SubAll(Tail(prs), re_sub(Head(prs), s))

(***************************************************************************)
(* WikipediaScraper.clean_paragraph (scraper.py)                           *)
(***************************************************************************)
patterns_replacements ==
    << [pattern |-> << Lazy(<<"/">>, <<Icon, ";">>, <<" ">>),
                       Lazy(<<"(">>, <<Icon, ")">>, << >>),
                       Lazy(<<"[">>, <<Icon>>, << >>),
                       Lazy(<< >>, <<Icon, " ">>, << >>) >>,
        replacement |-> << >>],
       [pattern |-> << Lazy(<<"(", "/">>, <<";">>, << >>) >>,
        replacement |-> <<"(">>],
       [pattern |-> << Lazy(<<"(">>, <<Icon, ";">>, << >>) >>,
        replacement |-> <<"(">>],
       [pattern |-> << Ref >>, replacement |-> << >>] >>

clean_paragraph(paragraph) ==
    IF paragraph = << >> THEN << >>
    ELSE strip(SubAll(patterns_replacements, paragraph))

(***************************************************************************)
(* clean_first_paragraph (leaders_scraper.py).  Its guard tests the type   *)
(* str, which is always true, so the "return None" branch is never taken;  *)
(* the result is not stripped.                                             *)
(***************************************************************************)
old_patterns_replacements ==
    << [pattern |-> << Lazy(<<"/">>, <<Icon, ";", " ">>, << >>) >>,
        replacement |-> << >>],
       [pattern |-> << Lazy(<<" ", "(">>, <<Icon, ")">>, << >>) >>,
        replacement |-> << >>],
       [pattern |-> << Lazy(<<"(">>, <<Icon, ";">>, << >>) >>,
        replacement |-> <<"(">>],
       [pattern |-> << Lazy(<<" ", "[">>, <<Icon>>, << >>) >>,
        replacement |-> << >>],
       [pattern |-> << Lazy(<<" ">>, <<Icon, " ">>, << >>) >>,
        replacement |-> <<" ">>],
       [pattern |-> << Lazy(<<"(", "/">>, <<";">>, << >>) >>,
        replacement |-> <<"(">>],
       [pattern |-> << Ref >>, replacement |-> << >>] >>

clean_first_paragraph(paragraph) == SubAll(old_patterns_replacements, paragraph)

(***************************************************************************)
(* Python values.  A text result is Str(s); None and a raised exception    *)
(* are kept apart from every text, the empty one included.                 *)
(***************************************************************************)
Str(s) == [kind |-> "str", val |-> s]
None == [kind |-> "None", val |-> << >>]
Raise(e) == [kind |-> "raise", val |-> << e >>]

(***************************************************************************)
(* A fetched page, as BeautifulSoup sees it.  The page is a sequence of    *)
(* markers in document order: "ltr" and "rtl" open the div of class        *)
(* mw-content-ltr / mw-content-rtl (closing the one open before), "body"   *)
(* closes the open div and goes on outside every container, "p" opens a    *)
(* paragraph (closing the one open before), "b" is a bold span and "text"  *)
(* a plain run of text.  Text before the first paragraph of a region       *)
(* belongs to no paragraph.  Parse gives the blocks of the page, in        *)
(* document order: the region before any container, then one block per     *)
(* container or stretch outside the containers.                            *)
(***************************************************************************)
Tok(tag, text) == [tag |-> tag, text |-> text]
Tokens ==
    { Tok("ltr", << >>), Tok("rtl", << >>), Tok("body", << >>), Tok("p", << >>),
      Tok("b", << " " >>), Tok("b", << "a" >>),
      Tok("text", << " " >>), Tok("text", << "a" >>) }

ClassOf(tag) ==
    IF tag = "ltr" THEN "mw-content-ltr"
    ELSE IF tag = "rtl" THEN "mw-content-rtl"
    ELSE "body"

AddParagraph(blocks) ==
    [blocks EXCEPT ![Len(blocks)].ps = Append(@, << >>)]

AddSpan(blocks, span) ==
    LET n == Len(blocks)
        m == Len(blocks[n].ps)
    IN  [blocks EXCEPT ![n].ps[m] = Append(@, span)]

RECURSIVE ParseFrom(_, _, _, _)
ParseFrom(tokens, i, blocks, inP) ==
    IF i > Len(tokens) THEN blocks
    ELSE LET t == tokens[i]
         IN  IF t.tag \in {"ltr", "rtl", "body"}
             THEN ParseFrom(tokens, i + 1,
                            Append(blocks, [cls |-> ClassOf(t.tag), ps |-> << >>]),
                            FALSE)
             ELSE IF t.tag = "p"
             THEN ParseFrom(tokens, i + 1, AddParagraph(blocks), TRUE)
             ELSE IF inP
             THEN ParseFrom(tokens, i + 1,
                            AddSpan(blocks, [b |-> t.tag = "b", text |-> t.text]),
                            TRUE)
             ELSE ParseFrom(tokens, i + 1, blocks, inP)

BeautifulSoup(content) ==
    ParseFrom(content, 1, << [cls |-> "body", ps |-> << >>] >>, FALSE)

\* soup.find("div", class_ = cls): the first such div, 0 for None
find_div(soup, cls) ==
    LET I == {i \in 1..Len(soup) : soup[i].cls = cls}
    IN  IF I = {} THEN 0 ELSE Min(I)

\* soup.find_all("p"): every paragraph of the page, in document order
RECURSIVE find_all_p(_)
find_all_p(soup) ==
    IF soup = << >> THEN << >> ELSE Head(soup).ps \o find_all_p(Tail(soup))

\* tag.get_text(): the texts of the spans, joined
RECURSIVE get_text(_)
get_text(spans) ==
    IF spans = << >> THEN << >> ELSE Head(spans).text \o get_text(Tail(spans))

\* paragraph.find("b"): the index of the first bold span, 0 for None
find_b(p) ==
    LET I == {i \in 1..Len(p) : p[i].b}
    IN  IF I = {} THEN 0 ELSE Min(I)

(***************************************************************************)
(* WikipediaScraper.get_first_wiki_paragraph (scraper.py), after the fetch *)
(***************************************************************************)
\* the search for the main content: ltr first, rtl if that finds nothing
main_content(soup) ==
    IF find_div(soup, "mw-content-ltr") # 0
    THEN find_div(soup, "mw-content-ltr")
    ELSE find_div(soup, "mw-content-rtl")

paragraphs_of(soup) ==
    IF main_content(soup) # 0 THEN soup[main_content(soup)].ps
    ELSE find_all_p(soup)

\* the test without its length comparison, as the older version has it
is_first_paragraph_any_bold(p) ==
    /\ find_b(p) # 0
    /\ rstrip(p[find_b(p)].text) # << >>

\* the test of one paragraph in the loop
is_first_paragraph(p) ==
    /\ find_b(p) # 0
    /\ LET b_tag_text == rstrip(p[find_b(p)].text)
           p_tag_text == rstrip(get_text(p))
       IN  b_tag_text # << >> /\ Len(b_tag_text) # Len(p_tag_text)

\* the loop without its final return "": the function ends returning None
RECURSIVE first_wiki_paragraph_no_return(_)
first_wiki_paragraph_no_return(paragraphs) ==
    IF paragraphs = << >> THEN None
    ELSE IF is_first_paragraph(Head(paragraphs))
    THEN Str(clean_paragraph(rstrip(get_text(Head(paragraphs)))))
    ELSE first_wiki_paragraph_no_return(Tail(paragraphs))

RECURSIVE first_wiki_paragraph(_)
first_wiki_paragraph(paragraphs) ==
    IF paragraphs = << >> THEN Str(<< >>)
    ELSE IF is_first_paragraph(Head(paragraphs))
    THEN Str(clean_paragraph(rstrip(get_text(Head(paragraphs)))))
    ELSE first_wiki_paragraph(Tail(paragraphs))

\* the search with "paragraphs" left unassigned when no container is found,
\* as the older version has it
get_first_wiki_paragraph_unbound(content) ==
    LET soup == BeautifulSoup(content)
    IN  IF main_content(soup) = 0 THEN Raise("UnboundLocalError")
        ELSE first_wiki_paragraph(soup[main_content(soup)].ps)

get_first_wiki_paragraph(content) ==
    first_wiki_paragraph(paragraphs_of(BeautifulSoup(content)))

(***************************************************************************)
(* get_first_paragraph_from_wikipedia (leaders_scraper.py), after the      *)
(* fetch.  "paragraphs" is assigned only when a container was found, so    *)
(* reading it without one raises UnboundLocalError.                        *)
(***************************************************************************)
old_is_first_paragraph(p) ==
    /\ find_b(p) # 0
    /\ rstrip(p[find_b(p)].text) # << >>

RECURSIVE old_first_paragraph(_)
old_first_paragraph(paragraphs) ==
    IF paragraphs = << >> THEN Str(<< >>)
    ELSE IF old_is_first_paragraph(Head(paragraphs))
    THEN Str(clean_first_paragraph(rstrip(get_text(Head(paragraphs)))))
    ELSE old_first_paragraph(Tail(paragraphs))

get_first_paragraph_from_wikipedia(content) ==
    LET soup == BeautifulSoup(content)
        main == main_content(soup)
    IN  IF main = 0 THEN Raise("UnboundLocalError")
        ELSE IF soup[main].ps = << >>
        THEN old_first_paragraph(find_all_p(soup))
        ELSE old_first_paragraph(soup[main].ps)

(***************************************************************************)
(* State.                                                                  *)
(*   the cleaner on its own:   paragraph, cleaned_paragraph, cleaned_again  *)
(*   the extractors on a page: content, wikipedia_intro, old_intro          *)
(*   a run of the program:     the rest                                     *)
(***************************************************************************)
VARIABLES
    paragraph,          \* the text given to clean_paragraph
    cleaned_paragraph,  \* clean_paragraph(paragraph)
    cleaned_again,      \* clean_paragraph of that
    cleanPc,
    content,            \* wiki_response.content of a fetched page
    wikipedia_intro,    \* what get_first_wiki_paragraph gives for it
    old_intro,          \* what get_first_paragraph_from_wikipedia gives for it
    extractPc,
    pc,                 \* where the run is
    argv,               \* sys.argv[1:]
    cookie,             \* self.cookie: unset, or the jar of the last refresh
    countries,          \* the value get_countries returned
    leaders_data,       \* country -> the value get_leaders_per_country returned
    ci,                 \* index of the country being processed
    li,                 \* index of the leader being processed
    callOp,             \* the decorated operation being called
    attempt,            \* the wrapper's loop index
    callState,          \* "try" | "except" | "returned" | "raised"
    callLog,            \* requests and refreshes made by the current call
    callResult,         \* what the call returned
    wiki_response,      \* the response to the last page fetch
    error,              \* the exception that ended the run
    raisedIn,           \* the operation that raised it
    exports,            \* exporters invoked, in order
    files               \* files written

cleanVars == << paragraph, cleaned_paragraph, cleaned_again, cleanPc >>
extractVars == << content, wikipedia_intro, old_intro, extractPc >>
callVars == << callOp, attempt, callState, callLog, callResult >>
runVars ==
    << pc, argv, cookie, countries, leaders_data, ci, li, callVars,
       wiki_response, error, raisedIn, exports, files >>

vars == << cleanVars, extractVars, runVars >>

(***************************************************************************)
(* Values of a run.                                                        *)
(***************************************************************************)
List(xs) == [kind |-> "list", val |-> xs]
Absent == [kind |-> "absent", val |-> << >>]
Exc(name, code) == [exc |-> name, status_code |-> code]
NoError == Exc("none", 0)

\* what session.get can give: a response with a status code, or no response
\* at all (a ConnectionError or Timeout raised by the transport)
Resp(code) == [status_code |-> code]
NoResponse == Resp(0)
Responses == { Resp(200), Resp(403), Resp(500), NoResponse }

\* the response to a page fetch, with its content
WikiResp(code, page) == [status_code |-> code, content |-> page]

\* response.raise_for_status() raises HTTPError for 4xx and 5xx
raises_for_status(r) == r.status_code \in 400..599

Fails(r) == r.status_code = NoResponse.status_code \/ raises_for_status(r)
ExcOf(r) ==
    IF r.status_code = NoResponse.status_code THEN Exc("ConnectionError", 0)
    ELSE Exc("HTTPError", r.status_code)

CleanIdle ==
    /\ paragraph = << >>
    /\ cleaned_paragraph = << >>
    /\ cleaned_again = << >>
    /\ cleanPc = "idle"

ExtractIdle ==
    /\ content = << >>
    /\ wikipedia_intro = Absent
    /\ old_intro = Absent
    /\ extractPc = "idle"

RunIdle ==
    /\ pc = "idle"
    /\ argv = << >>
    /\ cookie = "unset"
    /\ countries = Absent
    /\ leaders_data = << >>
    /\ ci = 0
    /\ li = 0
    /\ callOp = "none"
    /\ attempt = 0
    /\ callState = "idle"
    /\ callLog = << >>
    /\ callResult = Absent
    /\ wiki_response = WikiResp(0, << >>)
    /\ error = NoError
    /\ raisedIn = "none"
    /\ exports = << >>
    /\ files = {}

(***************************************************************************)
(* The cleaner on its own: one input text, cleaned once and then again.    *)
(***************************************************************************)
CleanInit ==
    /\ paragraph \in StringsUpTo(Sigma, MaxLen)
    /\ cleaned_paragraph = << >>
    /\ cleaned_again = << >>
    /\ cleanPc = "raw"
    /\ ExtractIdle
    /\ RunIdle

Clean ==
    /\ cleanPc = "raw"
    /\ cleaned_paragraph' = clean_paragraph(paragraph)
    /\ cleanPc' = "cleaned"
    /\ UNCHANGED << paragraph, cleaned_again, extractVars, runVars >>

CleanAgain ==
    /\ cleanPc = "cleaned"
    /\ cleaned_again' = clean_paragraph(cleaned_paragraph)
    /\ cleanPc' = "cleaned twice"
    /\ UNCHANGED << paragraph, cleaned_paragraph, extractVars, runVars >>

CleanNext == Clean \/ CleanAgain

SpecClean == CleanInit /\ [][CleanNext]_vars

(***************************************************************************)
(* The two extractors on one fetched page.                                 *)
(***************************************************************************)
ExtractInit ==
    /\ content \in StringsUpTo(Tokens, MaxTokens)
    /\ wikipedia_intro = Absent
    /\ old_intro = Absent
    /\ extractPc = "fetched"
    /\ CleanIdle
    /\ RunIdle

ExtractNew ==
    /\ extractPc = "fetched"
    /\ wikipedia_intro' = get_first_wiki_paragraph(content)
    /\ extractPc' = "new done"
    /\ UNCHANGED << content, old_intro, cleanVars, runVars >>

ExtractOld ==
    /\ extractPc = "new done"
    /\ old_intro' = get_first_paragraph_from_wikipedia(content)
    /\ extractPc' = "done"
    /\ UNCHANGED << content, wikipedia_intro, cleanVars, runVars >>

ExtractNext == ExtractNew \/ ExtractOld

SpecExtract == ExtractInit /\ [][ExtractNext]_vars

(***************************************************************************)
(* A run of main.py: WikipediaScraper().get_leaders_data(), then one       *)
(* export.  What the servers answer is chosen freely at every request.     *)
(***************************************************************************)
Countries == {"be", "fr"}
Urls == {"wiki/A"}

\* JSON bodies the API can answer with
RECURSIVE SeqsUpTo(_, _)
SeqsUpTo(S, n) ==
    IF n = 0 THEN {<< >>}
    ELSE LET shorter == SeqsUpTo(S, n - 1)
         IN  shorter \cup {Append(s, x) : s \in shorter, x \in S}

Leader(url) == [wikipedia_url |-> url, wikipedia_intro |-> Absent]
CountryBodies == SeqsUpTo(Countries, MaxCountries)
LeaderBodies == SeqsUpTo({Leader(u) : u \in Urls}, MaxLeaders)
Bodies(op) == IF op = "get_countries" THEN CountryBodies ELSE LeaderBodies

\* pages a wikipedia_url can lead to: nothing at all, a paragraph that is
\* bold in full, a lead paragraph with a reference marker inside the
\* ltr container
Pages ==
    { << >>,
      << Tok("p", << >>), Tok("b", << "a" >>) >>,
      << Tok("ltr", << >>), Tok("p", << >>), Tok("b", << "a" >>),
         Tok("text", << " ", "a", "[", "a", "]" >>) >> }

\* sys.argv[1].upper() for the arguments tried
upper(a) == IF a = "csv" THEN "CSV" ELSE a
Args == { << >>, << "CSV" >>, << "csv" >>, << "json" >> }

\* main.py's test for the CSV export
wants_csv(args) == Len(args) > 0 /\ upper(args[1]) = "CSV"

\* the test taking every HTTP error for an expired cookie
is_cookie_expired_any_error(e) == e.status_code >= 400

\* the wrapper's test for an expired cookie
is_cookie_expired(e) == e.status_code = 403

\* range(2) in the wrapper
NumAttempts == 2

Init ==
    /\ pc = "main"
    /\ argv \in Args
    /\ cookie = "unset"
    /\ countries = Absent
    /\ leaders_data = [c \in Countries |-> Absent]
    /\ ci = 0
    /\ li = 0
    /\ callOp = "none"
    /\ attempt = 0
    /\ callState = "idle"
    /\ callLog = << >>
    /\ callResult = Absent
    /\ wiki_response = WikiResp(0, << >>)
    /\ error = NoError
    /\ raisedIn = "none"
    /\ exports = << >>
    /\ files = {}
    /\ CleanIdle
    /\ ExtractIdle

\* the except clause placed around get_leaders_data alone, so that the
\* script goes on to the export
AbortThenExport(e, where) ==
    /\ pc' = "export"
    /\ error' = e
    /\ raisedIn' = where

\* an exception reaches main.py's except clause, which prints it
Abort(e, where) ==
    /\ pc' = "failed"
    /\ error' = e
    /\ raisedIn' = where

\* the wrapper of a decorated operation is entered
BeginCall(op) ==
    /\ pc' = "call"
    /\ callOp' = op
    /\ attempt' = 0
    /\ callState' = "try"
    /\ callLog' = << >>
    /\ callResult' = Absent

\* the wrapper's frame is gone once its caller has taken the result
EndCall ==
    /\ callOp' = "none"
    /\ attempt' = 0
    /\ callState' = "idle"
    /\ callLog' = << >>
    /\ callResult' = Absent

\* the loop over the countries cs moves to index k, or ends
ToCountry(cs, k) ==
    IF k > Len(cs)
    THEN /\ pc' = "export"
         /\ ci' = 0
         /\ EndCall
    ELSE /\ ci' = k
         /\ BeginCall("get_leaders_per_country")

\* get_leaders_data up to its first decorated call: refresh_cookie()
GetLeadersData ==
    /\ pc = "main"
    /\ \E r \in Responses :
          IF Fails(r)
          THEN /\ Abort(ExcOf(r), "refresh_cookie")
               /\ UNCHANGED << cookie, callVars >>
          ELSE /\ cookie' = "jar"
               /\ BeginCall("get_countries")
               /\ UNCHANGED << error, raisedIn >>
    /\ UNCHANGED << argv, countries, leaders_data, ci, li, wiki_response,
                    exports, files, cleanVars, extractVars >>

\* one pass of the wrapper's loop: the try block, api_call(self, ...)
ApiCall ==
    /\ pc = "call"
    /\ callState = "try"
    /\ attempt < NumAttempts
    /\ \E r \in Responses :
          /\ callLog' = Append(callLog, [ev |-> "request", status_code |-> r.status_code])
          /\ IF r = NoResponse
             THEN /\ callState' = "raised"
                  /\ callResult' = Raise("ConnectionError")
             ELSE IF raises_for_status(r)
             THEN IF is_cookie_expired(r)
                  THEN /\ callState' = "except"
                       /\ UNCHANGED callResult
                  ELSE /\ callState' = "raised"
                       /\ callResult' = Raise("HTTPError")
             ELSE /\ callState' = "returned"
                  /\ \E body \in Bodies(callOp) : callResult' = List(body)
    /\ UNCHANGED << pc, argv, cookie, countries, leaders_data, ci, li, callOp,
                    attempt, wiki_response, error, raisedIn, exports, files,
                    cleanVars, extractVars >>

\* the except block on 403: self.refresh_cookie(), then the next pass
RefreshAndRetry ==
    /\ pc = "call"
    /\ callState = "except"
    /\ \E r \in Responses :
          /\ callLog' = Append(callLog, [ev |-> "refresh", status_code |-> r.status_code])
          /\ IF Fails(r)
             THEN /\ callState' = "raised"
                  /\ callResult' = Raise(ExcOf(r).exc)
                  /\ UNCHANGED << cookie, attempt >>
             ELSE /\ cookie' = "jar"
                  /\ attempt' = attempt + 1
                  /\ callState' = "try"
                  /\ UNCHANGED callResult
    /\ UNCHANGED << pc, argv, countries, leaders_data, ci, li, callOp,
                    wiki_response, error, raisedIn, exports, files,
                    cleanVars, extractVars >>

\* the loop is used up: the wrapper ends without a return statement
LoopExhausted ==
    /\ pc = "call"
    /\ callState = "try"
    /\ attempt >= NumAttempts
    /\ callState' = "returned"
    /\ callResult' = None
    /\ UNCHANGED << pc, argv, cookie, countries, leaders_data, ci, li, callOp,
                    attempt, callLog, wiki_response, error, raisedIn, exports,
                    files, cleanVars, extractVars >>

\* an exception leaves the wrapper and get_leaders_data
CallRaised ==
    /\ pc = "call"
    /\ callState = "raised"
    /\ Abort(Exc(callResult.val[1], callLog[Len(callLog)].status_code), callOp)
    /\ UNCHANGED << argv, cookie, countries, leaders_data, ci, li, callVars,
                    wiki_response, exports, files, cleanVars, extractVars >>

\* countries = self.get_countries(); for country in countries:
CountriesReturned ==
    /\ pc = "call"
    /\ callOp = "get_countries"
    /\ callState = "returned"
    /\ countries' = callResult
    /\ IF callResult.kind = "None"
       THEN /\ Abort(Exc("TypeError", 0), "get_leaders_data")
            /\ UNCHANGED << ci, callVars >>
       ELSE /\ ToCountry(callResult.val, 1)
            /\ UNCHANGED << error, raisedIn >>
    /\ UNCHANGED << argv, cookie, leaders_data, li, wiki_response, exports,
                    files, cleanVars, extractVars >>

\* the loop over the leaders ls of country ci moves to index j, or ends
ToLeader(ls, j) ==
    IF j > Len(ls)
    THEN /\ li' = 0
         /\ ToCountry(countries.val, ci + 1)
    ELSE /\ li' = j
         /\ pc' = "intro"
         /\ ci' = ci
         /\ EndCall

\* self.leaders_data[country] = self.get_leaders_per_country(country);
\* len(self.leaders_data[country]); for leader in ...:
LeadersReturned ==
    /\ pc = "call"
    /\ callOp = "get_leaders_per_country"
    /\ callState = "returned"
    /\ leaders_data' = [leaders_data EXCEPT ![countries.val[ci]] = callResult]
    /\ IF callResult.kind = "None"
       THEN /\ Abort(Exc("TypeError", 0), "get_leaders_data")
            /\ UNCHANGED << ci, li, callVars >>
       ELSE /\ ToLeader(callResult.val, 1)
            /\ UNCHANGED << error, raisedIn >>
    /\ UNCHANGED << argv, cookie, countries, wiki_response, exports, files,
                    cleanVars, extractVars >>

\* leader["wikipedia_intro"] = self.get_first_wiki_paragraph(leader["wikipedia_url"])
GetIntro ==
    /\ pc = "intro"
    /\ \E r \in Responses :
          IF Fails(r)
          THEN /\ wiki_response' = WikiResp(r.status_code, << >>)
               /\ Abort(ExcOf(r), "get_first_wiki_paragraph")
               /\ UNCHANGED << leaders_data, ci, li, callVars >>
          ELSE /\ \E page \in Pages :
                     /\ wiki_response' = WikiResp(r.status_code, page)
                     /\ leaders_data' =
                            [leaders_data EXCEPT
                                ![countries.val[ci]].val[li].wikipedia_intro =
                                    get_first_wiki_paragraph(page)]
               /\ ToLeader(leaders_data[countries.val[ci]].val, li + 1)
               /\ UNCHANGED << error, raisedIn >>
    /\ UNCHANGED << argv, cookie, countries, exports, files, cleanVars,
                    extractVars >>

\* rows of to_csv_file: one per leader of every country
HasRows ==
    \E c \in Countries :
        leaders_data[c].kind = "list" /\ leaders_data[c].val # << >>

\* main.py after get_leaders_data returned: one exporter.  to_csv_file
\* reads rows[0] inside its own try block, so with no rows it writes nothing.
Export ==
    /\ pc = "export"
    /\ IF wants_csv(argv)
       THEN /\ exports' = Append(exports, "to_csv_file")
            /\ files' = IF HasRows THEN files \cup {"leaders.csv"} ELSE files
       ELSE /\ exports' = Append(exports, "to_json_file")
            /\ files' = files \cup {"leaders.json"}
    /\ pc' = "done"
    /\ UNCHANGED << argv, cookie, countries, leaders_data, ci, li, callVars,
                    wiki_response, error, raisedIn, cleanVars, extractVars >>

Next ==
    \/ GetLeadersData
    \/ ApiCall
    \/ RefreshAndRetry
    \/ LoopExhausted
    \/ CallRaised
    \/ CountriesReturned
    \/ LeadersReturned
    \/ GetIntro
    \/ Export

Spec == Init /\ [][Next]_vars

(***************************************************************************)
(* A run of leaders_scraper.py: main() calls get_leaders(session) and then *)
(* save().  Nothing catches an exception here: it ends the process.        *)
(***************************************************************************)
STATUS_CODE_EXPIRED_COOKIE == 403
API_NUM_RETRIES == 2

OldInit ==
    /\ pc = "main"
    /\ argv = << >>
    /\ cookie = "unset"
    /\ countries = Absent
    /\ leaders_data = [c \in Countries |-> Absent]
    /\ ci = 0
    /\ li = 0
    /\ callOp = "none"
    /\ attempt = 0
    /\ callState = "idle"
    /\ callLog = << >>
    /\ callResult = Absent
    /\ wiki_response = WikiResp(0, << >>)
    /\ error = NoError
    /\ raisedIn = "none"
    /\ exports = << >>
    /\ files = {}
    /\ CleanIdle
    /\ ExtractIdle

\* an exception leaves main(): the interpreter prints it and exits
Uncaught(e, where) ==
    /\ pc' = "failed"
    /\ error' = e
    /\ raisedIn' = where

OldToCountry(cs, k) ==
    IF k > Len(cs)
    THEN /\ pc' = "save"
         /\ ci' = 0
         /\ EndCall
    ELSE /\ ci' = k
         /\ BeginCall("api_get_leaders")

OldToLeader(ls, j) ==
    IF j > Len(ls)
    THEN /\ li' = 0
         /\ OldToCountry(countries.val, ci + 1)
    ELSE /\ li' = j
         /\ pc' = "intro"
         /\ ci' = ci
         /\ EndCall

\* get_leaders up to its first decorated call: cookie = api_get_cookie(session)
OldGetLeaders ==
    /\ pc = "main"
    /\ \E r \in Responses :
          IF Fails(r)
          THEN /\ Uncaught(ExcOf(r), "api_get_cookie")
               /\ UNCHANGED << cookie, callVars >>
          ELSE /\ cookie' = "jar"
               /\ BeginCall("api_get_countries")
               /\ UNCHANGED << error, raisedIn >>
    /\ UNCHANGED << argv, countries, leaders_data, ci, li, wiki_response,
                    exports, files, cleanVars, extractVars >>

\* one pass of the wrapper's loop: call_response = api_call(session, cookie, ...).
\* A response that is returned is kept and the loop goes on: the try block
\* has no return and no break.
OldApiCall ==
    /\ pc = "call"
    /\ callState = "try"
    /\ attempt < API_NUM_RETRIES
    /\ \E r \in Responses :
          /\ callLog' = Append(callLog, [ev |-> "request", status_code |-> r.status_code])
          /\ IF r = NoResponse
             THEN /\ callState' = "raised"
                  /\ callResult' = Raise("ConnectionError")
                  /\ UNCHANGED attempt
             ELSE IF r.status_code = STATUS_CODE_EXPIRED_COOKIE
             THEN /\ callState' = "except"
                  /\ UNCHANGED << callResult, attempt >>
             ELSE IF raises_for_status(r)
             THEN /\ callState' = "raised"
                  /\ callResult' = Raise("HTTPError")
                  /\ UNCHANGED attempt
             ELSE /\ \E body \in Bodies(IF callOp = "api_get_countries"
                                        THEN "get_countries"
                                        ELSE "get_leaders_per_country") :
                        callResult' = List(body)
                  /\ attempt' = attempt + 1
                  /\ UNCHANGED callState
    /\ UNCHANGED << pc, argv, cookie, countries, leaders_data, ci, li, callOp,
                    wiki_response, error, raisedIn, exports, files,
                    cleanVars, extractVars >>

\* except CookieExpiredError: cookie = api_get_cookie(session).  The new jar
\* is bound to the wrapper's own parameter; the caller's cookie stays.
OldRefresh ==
    /\ pc = "call"
    /\ callState = "except"
    /\ \E r \in Responses :
          /\ callLog' = Append(callLog, [ev |-> "refresh", status_code |-> r.status_code])
          /\ IF Fails(r)
             THEN /\ callState' = "raised"
                  /\ callResult' = Raise(ExcOf(r).exc)
                  /\ UNCHANGED attempt
             ELSE /\ attempt' = attempt + 1
                  /\ callState' = "try"
                  /\ UNCHANGED callResult
    /\ UNCHANGED << pc, argv, cookie, countries, leaders_data, ci, li, callOp,
                    wiki_response, error, raisedIn, exports, files,
                    cleanVars, extractVars >>

\* after the loop: return call_response, which no pass may have assigned
OldLoopEnd ==
    /\ pc = "call"
    /\ callState = "try"
    /\ attempt >= API_NUM_RETRIES
    /\ IF callResult.kind = "absent"
       THEN /\ callState' = "raised"
            /\ callResult' = Raise("UnboundLocalError")
       ELSE /\ callState' = "returned"
            /\ UNCHANGED callResult
    /\ UNCHANGED << pc, argv, cookie, countries, leaders_data, ci, li, callOp,
                    attempt, callLog, wiki_response, error, raisedIn, exports,
                    files, cleanVars, extractVars >>

OldCallRaised ==
    /\ pc = "call"
    /\ callState = "raised"
    /\ Uncaught(Exc(callResult.val[1], callLog[Len(callLog)].status_code), callOp)
    /\ UNCHANGED << argv, cookie, countries, leaders_data, ci, li, callVars,
                    wiki_response, exports, files, cleanVars, extractVars >>

\* countries = api_get_countries(session, cookie); for country in countries:
OldCountriesReturned ==
    /\ pc = "call"
    /\ callOp = "api_get_countries"
    /\ callState = "returned"
    /\ countries' = callResult
    /\ OldToCountry(callResult.val, 1)
    /\ UNCHANGED << argv, cookie, leaders_data, li, wiki_response, error,
                    raisedIn, exports, files, cleanVars, extractVars >>

\* leaders[country] = api_get_leaders(session, cookie, country); for leader in ...:
OldLeadersReturned ==
    /\ pc = "call"
    /\ callOp = "api_get_leaders"
    /\ callState = "returned"
    /\ leaders_data' = [leaders_data EXCEPT ![countries.val[ci]] = callResult]
    /\ OldToLeader(callResult.val, 1)
    /\ UNCHANGED << argv, cookie, countries, wiki_response, error, raisedIn,
                    exports, files, cleanVars, extractVars >>

\* leader["wikipedia_intro"] = get_first_paragraph_from_wikipedia(session, url)
OldGetIntro ==
    /\ pc = "intro"
    /\ \E r \in Responses :
          IF Fails(r)
          THEN /\ wiki_response' = WikiResp(r.status_code, << >>)
               /\ Uncaught(ExcOf(r), "get_first_paragraph_from_wikipedia")
               /\ UNCHANGED << leaders_data, ci, li, callVars >>
          ELSE \E page \in Pages :
                  /\ wiki_response' = WikiResp(r.status_code, page)
                  /\ LET intro == get_first_paragraph_from_wikipedia(page)
                     IN  IF intro.kind = "raise"
                         THEN /\ Uncaught(Exc(intro.val[1], 0),
                                          "get_first_paragraph_from_wikipedia")
                              /\ UNCHANGED << leaders_data, ci, li, callVars >>
                         ELSE /\ leaders_data' =
                                    [leaders_data EXCEPT
                                        ![countries.val[ci]].val[li].wikipedia_intro = intro]
                              /\ OldToLeader(leaders_data[countries.val[ci]].val, li + 1)
                              /\ UNCHANGED << error, raisedIn >>
    /\ UNCHANGED << argv, cookie, countries, exports, files, cleanVars,
                    extractVars >>

\* save(leaders, "leaders.json")
OldSave ==
    /\ pc = "save"
    /\ exports' = Append(exports, "save")
    /\ files' = files \cup {"leaders.json"}
    /\ pc' = "done"
    /\ UNCHANGED << argv, cookie, countries, leaders_data, ci, li, callVars,
                    wiki_response, error, raisedIn, cleanVars, extractVars >>

OldNext ==
    \/ OldGetLeaders
    \/ OldApiCall
    \/ OldRefresh
    \/ OldLoopEnd
    \/ OldCallRaised
    \/ OldCountriesReturned
    \/ OldLeadersReturned
    \/ OldGetIntro
    \/ OldSave

SpecOld == OldInit /\ [][OldNext]_vars

(***************************************************************************)
(* Properties of one call of a decorated operation (Spec).                 *)
(***************************************************************************)
Requests(log) == Cardinality({i \in 1..Len(log) : log[i].ev = "request"})
Refreshes(log) == Cardinality({i \in 1..Len(log) : log[i].ev = "refresh"})
CallOver == callState \in {"returned", "raised"}
FirstGot403 ==
    callLog # << >> /\ callLog[1].ev = "request" /\ callLog[1].status_code = 403

\* C1: in one call of a decorated operation whose first attempt gets 403,
\* refresh_cookie is called exactly once and the request retried exactly
\* once: at most 2 requests and at most 1 refresh, also when the retry gets
\* 403 again.
C1_OneRefreshOneRetry ==
    /\ Requests(callLog) <= 2
    /\ Refreshes(callLog) <= 1
    /\ (CallOver /\ FirstGot403 /\ Requests(callLog) = 2)
          => Refreshes(callLog) = 1

\* C2: a call whose first attempt gets 403 and whose retry fails as well
\* never returns normally; a normal return carries the parsed body of a 2xx
\* response.
C2_FailedRetryRaises ==
    /\ callState = "returned" =>
          /\ callResult.kind = "list"
          /\ callLog[Len(callLog)].ev = "request"
          /\ callLog[Len(callLog)].status_code = 200
    /\ (pc = "call" /\ FirstGot403 /\ Len(callLog) >= 3
           /\ callLog[3].ev = "request" /\ callLog[3].status_code # 200) =>
          callState = "raised" /\ callResult.kind = "raise"

\* C3: only a 403 leads to refresh_cookie and a retry.  A request that fails
\* with another status, or without any response, is the last thing the call
\* does; the call raises, and the error that reaches the caller is that one.
C3_Only403Retries ==
    /\ \A i \in 1..Len(callLog) :
          /\ callLog[i].ev = "refresh" =>
                /\ i > 1
                /\ callLog[i - 1].ev = "request"
                /\ callLog[i - 1].status_code = 403
          /\ (callLog[i].ev = "request" /\ callLog[i].status_code \notin {200, 403}) =>
                /\ i = Len(callLog)
                /\ callState = "raised"
                /\ callResult.kind = "raise"
    /\ (pc = "failed" /\ callLog # << >> /\ callLog[Len(callLog)].ev = "request") =>
          /\ error.status_code = callLog[Len(callLog)].status_code
          /\ error.exc = IF error.status_code = 0 THEN "ConnectionError" ELSE "HTTPError"
          /\ raisedIn = callOp

\* a retry that ends with 500 has raised it, after exactly one refresh
C3_Witness ==
    /\ pc = "failed"
    /\ Len(callLog) = 3
    /\ callLog[1] = [ev |-> "request", status_code |-> 403]
    /\ callLog[2].ev = "refresh"
    /\ callLog[3] = [ev |-> "request", status_code |-> 500]
    /\ error = Exc("HTTPError", 500)

(***************************************************************************)
(* Properties of a run (Spec).                                             *)
(***************************************************************************)
Completed == pc \in {"export", "done"}
LeadersOf(c) == leaders_data[c].val

\* C4: when get_leaders_data has completed without raising, every leader
\* record of every country in leaders_data has wikipedia_intro, and it holds
\* a string (possibly empty), never None.
C4_EveryLeaderHasIntro ==
    Completed =>
        \A c \in Countries :
            /\ leaders_data[c].kind \in {"absent", "list"}
            /\ leaders_data[c].kind = "list" =>
                  \A j \in 1..Len(LeadersOf(c)) :
                      LeadersOf(c)[j].wikipedia_intro.kind = "str"

\* a completed run with an empty and a non-empty biography in one country
C4_Witness ==
    /\ pc = "done"
    /\ \E c \in Countries :
          /\ leaders_data[c].kind = "list"
          /\ Len(LeadersOf(c)) = 2
          /\ LeadersOf(c)[1].wikipedia_intro = Str(<< >>)
          /\ LeadersOf(c)[2].wikipedia_intro = Str(<< "a", " ", "a" >>)

ApiCallFailed ==
    \/ callState = "raised"
    \/ callState = "returned" /\ callResult.kind = "None"
    \/ raisedIn \in {"refresh_cookie", "get_countries", "get_leaders_per_country"}

AggregationComplete ==
    /\ countries.kind = "list"
    /\ \A i \in 1..Len(countries.val) :
          LET c == countries.val[i]
          IN  /\ leaders_data[c].kind = "list"
              /\ \A j \in 1..Len(LeadersOf(c)) :
                    LeadersOf(c)[j].wikipedia_intro.kind # "absent"

\* C5: if any API call fails (the first cookie, the country list, the leader
\* list of any country), no exporter is ever invoked; if the aggregation
\* completes, exactly one is: to_csv_file when the first argument is "CSV"
\* (in any case of the letters, as main.py upper-cases it), to_json_file
\* otherwise.
C5_ExportOnlyAfterSuccess ==
    /\ (ApiCallFailed \/ error # NoError \/ pc = "failed") =>
          exports = << >> /\ files = {}
    /\ Len(exports) <= 1
    /\ exports # << >> => pc = "done" /\ AggregationComplete
    /\ pc = "done" =>
          exports = << IF argv # << >> /\ argv[1] \in {"CSV", "csv"}
                       THEN "to_csv_file" ELSE "to_json_file" >>

\* the second country's leader list fails after the first country was done
C5_Witness ==
    /\ pc = "failed"
    /\ raisedIn = "get_leaders_per_country"
    /\ ci = 2
    /\ leaders_data[countries.val[1]].kind = "list"
    /\ LeadersOf(countries.val[1]) # << >>
    /\ exports = << >>

\* C6 as stated: whatever the outcome of the biography step for a leader,
\* the fetch failing included, the run is not aborted by it.
C6_BiographyNeverAborts == raisedIn # "get_first_wiki_paragraph"

NoBold(page) == \A i \in 1..Len(page) : page[i].tag # "b"

\* C6 as amended: for a page that was fetched (2xx), whatever its structure,
\* the leader gets a string biography, empty when the page has no bold text,
\* and the run goes on with the next leader or country; a fetch that fails
\* or returns a non-2xx status raises and aborts the run.
C6_FetchedPageNeverAborts ==
    [][pc = "intro" =>
          LET c == countries.val[ci]
              n == Len(LeadersOf(c))
          IN  IF Fails(wiki_response')
              THEN /\ pc' = "failed"
                   /\ raisedIn' = "get_first_wiki_paragraph"
                   /\ leaders_data' = leaders_data
              ELSE /\ error' = NoError
                   /\ leaders_data'[c].val[li].wikipedia_intro.kind = "str"
                   /\ NoBold(wiki_response'.content) =>
                         leaders_data'[c].val[li].wikipedia_intro = Str(<< >>)
                   /\ li < n => pc' = "intro" /\ li' = li + 1 /\ ci' = ci
                   /\ (li = n /\ ci < Len(countries.val)) =>
                         pc' = "call" /\ ci' = ci + 1
                   /\ (li = n /\ ci = Len(countries.val)) => pc' = "export"
      ]_vars

\* a page with nothing in it gave the first leader an empty biography and
\* the run is at the second leader
C6_Witness ==
    /\ pc = "intro"
    /\ li = 2
    /\ wiki_response = WikiResp(200, << >>)
    /\ LeadersOf(countries.val[ci])[1].wikipedia_intro = Str(<< >>)

(***************************************************************************)
(* Properties of the cleaner (SpecClean).                                  *)
(***************************************************************************)
\* C7: clean_paragraph is idempotent: cleaning a cleaned text changes nothing.
C7_Idempotent ==
    cleanPc = "cleaned twice" => cleaned_again = cleaned_paragraph

(***************************************************************************)
(* Properties of the extractors (SpecExtract).                             *)
(***************************************************************************)
Collected == paragraphs_of(BeautifulSoup(content))

\* a paragraph qualifies, as C8 states it: some bold span whose trimmed text
\* is non-empty and strictly shorter than the paragraph's trimmed text
QualifiesAnyBold(p) ==
    \E i \in 1..Len(p) :
        /\ p[i].b
        /\ strip(p[i].text) # << >>
        /\ Len(strip(p[i].text)) < Len(strip(get_text(p)))

\* a paragraph qualifies, as the code has it: the first bold span, texts
\* trimmed on the right only
QualifiesFirstBold(p) ==
    \E i \in 1..Len(p) :
        /\ p[i].b
        /\ \A j \in 1..(i - 1) : ~p[j].b
        /\ rstrip(p[i].text) # << >>
        /\ Len(rstrip(p[i].text)) < Len(rstrip(get_text(p)))

\* C8 as stated: the result is the cleaned text of the first paragraph with
\* a bold span (any of its bold spans) whose trimmed text is non-empty and
\* strictly shorter than the paragraph's text trimmed on both sides, and the
\* empty string when there is none.
C8_FirstQualifyingAnyBold ==
    extractPc # "fetched" =>
        LET Q == {k \in 1..Len(Collected) : QualifiesAnyBold(Collected[k])}
        IN  IF Q = {} THEN wikipedia_intro = Str(<< >>)
            ELSE wikipedia_intro =
                    Str(clean_paragraph(rstrip(get_text(Collected[Min(Q)]))))

\* C8 as amended: the result is the cleaned right-trimmed text of the first
\* paragraph whose FIRST bold span has a non-empty right-trimmed text that is
\* strictly shorter than the paragraph's right-trimmed text, and the empty
\* string when there is none.
C8_FirstQualifyingFirstBold ==
    extractPc # "fetched" =>
        LET Q == {k \in 1..Len(Collected) : QualifiesFirstBold(Collected[k])}
        IN  IF Q = {} THEN wikipedia_intro = Str(<< >>)
            ELSE wikipedia_intro =
                    Str(clean_paragraph(rstrip(get_text(Collected[Min(Q)]))))

\* a paragraph that is bold in full was skipped and the next one chosen
C8_Witness ==
    /\ extractPc = "done"
    /\ Len(Collected) = 2
    /\ Len(Collected[1]) = 1
    /\ Collected[1][1].b
    /\ rstrip(Collected[1][1].text) # << >>
    /\ QualifiesFirstBold(Collected[2])
    /\ wikipedia_intro = Str(clean_paragraph(rstrip(get_text(Collected[2]))))
    /\ wikipedia_intro # Str(<< >>)

NoParagraphs == find_all_p(BeautifulSoup(content)) = << >>

\* C9: on every fetched page both extractors return a string, and the empty
\* string when the page has no paragraph anywhere; neither raises.
C9_ExtractorsNeverRaise ==
    /\ extractPc # "fetched" =>
          /\ wikipedia_intro.kind = "str"
          /\ NoParagraphs => wikipedia_intro = Str(<< >>)
    /\ extractPc = "done" =>
          /\ old_intro.kind = "str"
          /\ NoParagraphs => old_intro = Str(<< >>)

(***************************************************************************)
(* Properties of one call through the older wrapper (SpecOld).             *)
(***************************************************************************)
\* C10: the older wrapper calls the API again only after the attempt before
\* raised CookieExpiredError: a first attempt that succeeds makes exactly one
\* request, and a call never makes more than API_NUM_RETRIES requests.
C10_RetriesOnlyIfNeeded ==
    /\ Requests(callLog) <= API_NUM_RETRIES
    /\ \A i \in 2..Len(callLog) :
          callLog[i].ev = "request" =>
              /\ callLog[i - 1].ev = "refresh"
              /\ i > 2
              /\ callLog[i - 2].status_code = STATUS_CODE_EXPIRED_COOKIE
    /\ (callLog # << >> /\ callLog[1].status_code = 200) => Requests(callLog) = 1

====
